---- MODULE Spec2Model ----
(***************************************************************************)
(* Model of maad/rois/rois_1d.py: sinc, corresp_onset_offset,              *)
(* energy_windowed and find_rois_cwt.                                      *)
(*                                                                         *)
(* Times.  Every time the code computes is a multiple of 1/(2*fs) seconds  *)
(* (t[k] = k*wl/fs + wl*0.5/fs, tmax = len(s)/fs, tmin = 0), so the model  *)
(* keeps a time as the integer  time * 2 * fs  ("half samples").  All      *)
(* comparisons the code makes between times are unchanged by that scale.   *)
(* Floating-point rounding of these sums is not modelled.                  *)
(*                                                                         *)
(* Numeric library calls on sample values (lfilter, mean of squares, cwt)  *)
(* are modelled by the length of their result; the smoothed series s_cwt   *)
(* is any series of the right length over CwtVals.                         *)
(***************************************************************************)
EXTENDS Integers, Sequences, FiniteSets

\* ---- bounds of the model ----
MaxLen == 6
MaxWl == 3
MaxVal == 2
MaxTh == 1

\* ---- program constants ----
npad == 5
find_transition_bw == 80
default_transition_bw == 5

\* ---- input sets ----
Lens == 1..MaxLen
Wls == 1..MaxWl
CwtVals == 0..MaxVal
Ths == 0..MaxTh
FsSet == {44100, 200000}
Freqs == {1, 2}
Cutoffs == Freqs \X Freqs
TbwSet == {-default_transition_bw, 0, default_transition_bw, find_transition_bw}
TlenFsSet == {10, 20, 50, 80}
Fns == {"sinc", "energy_windowed", "find_rois_cwt"}

VARIABLES fn, pc, slen, fs, flims, tbw, tlenfs, wl, th,
          s_filt_len, padlen, auxlen, t, s_cwt, segments_bin, onset, offset,
          reconciled, warned, df, err

vars == <<fn, pc, slen, fs, flims, tbw, tlenfs, wl, th,
          s_filt_len, padlen, auxlen, t, s_cwt, segments_bin, onset, offset,
          reconciled, warned, df, err>>

inputs == <<fn, slen, fs, flims, tbw, tlenfs, th>>

\* ---- helpers ----

\* round(num/den) for num >= 0, den > 0, ties to the even neighbour
RoundHalfEven(num, den) ==
    LET q == num \div den
        r == num % den
    IN  IF 2 * r < den THEN q
        ELSE IF 2 * r > den THEN q + 1
        ELSE IF q % 2 = 0 THEN q ELSE q + 1

RECURSIVE Pow2Le(_, _)
\* largest power of two p' >= p with 20 * p' <= x, given 20 * p <= x
Pow2Le(p, x) == IF 20 * (2 * p) <= x THEN Pow2Le(2 * p, x) ELSE p

\* int(2**floor(log2(tlen*fs*0.05))): 0 when tlen*fs*0.05 < 1
WindowLength(x) == IF x < 20 THEN 0 ELSE Pow2Le(1, x)

\* round(tlen*fs/wl/2)
CwtWidth(x, w) == RoundHalfEven(x, 2 * w)

\* ---- sinc (lines 16-41) ----

\* width = (cutoff[1] - cutoff[0]) * transition_bw, with transition_bw in
\* hundredths (0.8 is 80, 0.05 is 5)
Width(cutoff, bw) == (cutoff[2] - cutoff[1]) * bw

\* sinc has no check of its own on cutoff or width: it hands them to
\* kaiserord (line 36) and firwin (line 38), so it never raises an error of
\* its own.  kaiserord divides by width; firwin rejects cutoffs that are not
\* strictly increasing; with increasing cutoffs and width < 0 (a negative
\* transition_bw) kaiserord returns a tap count <= 1, on which the library
\* either raises or designs a one-tap filter.
SincOutcomes(cutoff, bw) ==
    IF Width(cutoff, bw) = 0 \/ cutoff[2] <= cutoff[1] THEN {"LibraryError"}
    ELSE IF Width(cutoff, bw) < 0 THEN {"LibraryError", "filtered"}
    ELSE {"filtered"}

\* ---- energy_windowed (lines 74-102) ----

PadAmountMod(n, w) == n % w

\* second pad width of np.lib.pad(s, (0, wl-len(s)%wl), 'reflect')
PadAmount(n, w) == w - (n % w)

\* len(s_aux) after padding
PaddedLen(n, w) == n + PadAmount(n, w)

\* int(len(s_aux)/wl), the number of rows of the reshape
NumWindows(a, w) == a \div w

\* np.reshape(s_aux, (rows, wl)) succeeds only when rows * wl = len(s_aux)
ReshapeOk(a, w) == NumWindows(a, w) * w = a

\* time[k] = k*wl/fs + wl*0.5/fs for the 0-based window k, in half samples
TimeOf(k, w) == 2 * k * w + w

\* np.arange(0, len(s_rms)) * wl / fs + wl*0.5/fs  (1-based sequence)
Times(nw, w) == [k \in 1..nw |-> TimeOf(k - 1, w)]

\* ---- find_rois_cwt, edge detection (lines 145-151) ----

\* length of s_cwt: pad by cwt_width*npad on both sides, convolve (same
\* length), then keep indices p .. len-p-1
CwtLen(n, width) ==
    LET p == width * npad
        padded == n + 2 * p
    IN  (padded - p) - p

MaskGe(c, thr) == [i \in 1..Len(c) |-> c[i] >= thr]

MaskLt(c, thr) == [i \in 1..Len(c) |-> c[i] < thr]

\* segments_bin = np.array(s_cwt > th)
Mask(c, thr) == [i \in 1..Len(c) |-> c[i] > thr]

AsInt(b) == IF b THEN 1 ELSE 0

\* np.diff(segments_bin.astype(int))
Diff(b) == [i \in 1..(Len(b) - 1) |-> AsInt(b[i + 1]) - AsInt(b[i])]

\* np.where(d > 0) resp. np.where(d < 0): increasing indices, 1-based
WhereRising(d) == SelectSeq([i \in 1..Len(d) |-> i], LAMBDA i : d[i] > 0)
WhereFalling(d) == SelectSeq([i \in 1..Len(d) |-> i], LAMBDA i : d[i] < 0)

EdgeTimeNoDelay(tt, i) == tt[i]

\* t[i] + t[0]
EdgeTime(tt, i) == tt[i] + tt[1]

\* t[np.where(np.diff(...) > 0)] + t[0]
Onsets(tt, b) ==
    LET w == WhereRising(Diff(b)) IN [j \in 1..Len(w) |-> EdgeTime(tt, w[j])]

\* t[np.where(np.diff(...) < 0)] + t[0]
Offsets(tt, b) ==
    LET w == WhereFalling(Diff(b)) IN [j \in 1..Len(w) |-> EdgeTime(tt, w[j])]

\* ---- corresp_onset_offset (lines 44-72) ----

CheckStartNoInsert(on, off, tmin) == on

\* if onset[0] > offset[0]: onset = np.insert(onset, 0, tmin)
CheckStart(on, off, tmin) == IF on[1] > off[1] THEN <<tmin>> \o on ELSE on

CheckEndNoAppend(on, off, tmax) == off

CheckEndAlwaysAppend(on, off, tmax) == Append(off, tmax)

\* if onset[-1] > offset[-1]: offset = np.append(offset, tmax)
CheckEnd(on, off, tmax) ==
    IF on[Len(on)] > off[Len(off)] THEN Append(off, tmax) ELSE off

corresp_onset_offset(on, off, tmin, tmax) ==
    LET on2 == CheckStart(on, off, tmin)
    IN  <<on2, CheckEnd(on2, off, tmax)>>

\* ---- find_rois_cwt, output (lines 153-169) ----

\* onset.size==0 or offset.size==0
NoDetection(on, off) == Len(on) = 0 \/ Len(off) = 0

\* np.round(x, 5) of the time x/(2*fs) seconds, in units of 1e-5 s
Round5(x, rate) == RoundHalfEven(x * 50000, rate)

\* rows of np.transpose([round(onset), fmin.., round(offset), fmax..])
Rows(on, off, band, rate) ==
    [i \in 1..Len(on) |->
        <<Round5(on[i], rate), band[1], Round5(off[i], rate), band[2]>>]

\* the whole of lines 149-169 for a smoothed series c of the call, as a
\* function of the threshold: the number of rows of the returned table
NumRows(c, thr, tt, n) ==
    LET b == Mask(c, thr)
        on == Onsets(tt, b)
        off == Offsets(tt, b)
    IN  IF NoDetection(on, off) THEN 0
        ELSE Len(corresp_onset_offset(on, off, 0, 2 * n)[1])

NoDf == [kind |-> "none", rows |-> <<>>]
EmptyDf == [kind |-> "empty", rows |-> <<>>]

\* ---- state machine ----

\* state after the caller has chosen the function and its arguments
Init ==
    /\ fn \in Fns
    /\ pc = "start"
    /\ slen \in Lens
    /\ fs \in FsSet
    /\ flims \in (IF fn = "energy_windowed" THEN {<<1, 2>>} ELSE Cutoffs)
    /\ tbw \in (IF fn = "sinc" THEN TbwSet ELSE {find_transition_bw})
    /\ tlenfs \in (IF fn = "find_rois_cwt" THEN TlenFsSet ELSE {0})
    /\ wl \in (IF fn = "energy_windowed" THEN Wls ELSE {0})
    /\ th \in (IF fn = "find_rois_cwt" THEN Ths ELSE {0})
    /\ s_filt_len = -1
    /\ padlen = -1
    /\ auxlen = -1
    /\ t = <<>>
    /\ s_cwt = <<>>
    /\ segments_bin = <<>>
    /\ onset = <<>>
    /\ offset = <<>>
    /\ reconciled = FALSE
    /\ warned = FALSE
    /\ df = NoDf
    /\ err = "none"

\* a direct call of sinc(s, cutoff, fs, atten, transition_bw)
SincCall ==
    /\ fn = "sinc" /\ pc = "start"
    /\ \E out \in SincOutcomes(flims, tbw) :
          /\ s_filt_len' = (IF out = "filtered" THEN slen ELSE -1)
          /\ err' = (IF out = "filtered" THEN "none" ELSE out)
    /\ pc' = "done"
    /\ UNCHANGED <<inputs, wl, padlen, auxlen, t, s_cwt, segments_bin,
                   onset, offset, reconciled, warned, df>>

\* the body of energy_windowed on a signal of n samples with window w
EnergyWindowed(n, w) ==
    /\ padlen' = PadAmount(n, w)
    /\ auxlen' = PaddedLen(n, w)
    /\ IF ReshapeOk(PaddedLen(n, w), w)
       THEN /\ t' = Times(NumWindows(PaddedLen(n, w), w), w)
            /\ err' = "none"
            /\ pc' = (IF fn = "find_rois_cwt" THEN "reduced" ELSE "done")
       ELSE /\ t' = <<>>
            /\ err' = "ReshapeError"
            /\ pc' = "done"

\* a direct call of energy_windowed(s, wl, fs)
EnergyCall ==
    /\ fn = "energy_windowed" /\ pc = "start"
    /\ EnergyWindowed(slen, wl)
    /\ UNCHANGED <<inputs, wl, s_filt_len, s_cwt, segments_bin,
                   onset, offset, reconciled, warned, df>>

\* find_rois_cwt line 138: s_filt = sinc(s, flims, fs, atten=80, transition_bw=0.8)
FindFilter ==
    /\ fn = "find_rois_cwt" /\ pc = "start"
    /\ \E out \in SincOutcomes(flims, find_transition_bw) :
          /\ s_filt_len' = (IF out = "filtered" THEN slen ELSE -1)
          /\ err' = (IF out = "filtered" THEN "none" ELSE out)
          /\ pc' = (IF out = "filtered" THEN "filtered" ELSE "done")
    /\ UNCHANGED <<inputs, wl, padlen, auxlen, t, s_cwt, segments_bin,
                   onset, offset, reconciled, warned, df>>

\* find_rois_cwt lines 140-141: window length, then energy_windowed
FindEnergy ==
    /\ fn = "find_rois_cwt" /\ pc = "filtered"
    /\ wl' = WindowLength(tlenfs)
    /\ IF WindowLength(tlenfs) = 0
       THEN /\ err' = "ZeroDivisionError"
            /\ pc' = "done"
            /\ UNCHANGED <<padlen, auxlen, t>>
       ELSE EnergyWindowed(s_filt_len, WindowLength(tlenfs))
    /\ UNCHANGED <<inputs, s_filt_len, s_cwt, segments_bin,
                   onset, offset, reconciled, warned, df>>

\* find_rois_cwt lines 143-147: pad, wavelet transform, remove pad
FindCwt ==
    /\ fn = "find_rois_cwt" /\ pc = "reduced"
    /\ \E c \in [1..CwtLen(Len(t), CwtWidth(tlenfs, wl)) -> CwtVals] :
          s_cwt' = c
    /\ pc' = "smoothed"
    /\ UNCHANGED <<inputs, wl, s_filt_len, padlen, auxlen, t, segments_bin,
                   onset, offset, reconciled, warned, df, err>>

\* find_rois_cwt lines 149-151: threshold and edges
FindEdges ==
    /\ fn = "find_rois_cwt" /\ pc = "smoothed"
    /\ segments_bin' = Mask(s_cwt, th)
    /\ onset' = Onsets(t, Mask(s_cwt, th))
    /\ offset' = Offsets(t, Mask(s_cwt, th))
    /\ pc' = "edges"
    /\ UNCHANGED <<inputs, wl, s_filt_len, padlen, auxlen, t, s_cwt,
                   reconciled, warned, df, err>>

\* find_rois_cwt lines 153-169 and the return: empty table, or reconcile
\* the boundaries and build the table
FindFormat ==
    /\ fn = "find_rois_cwt" /\ pc = "edges"
    /\ IF NoDetection(onset, offset)
       THEN /\ warned' = TRUE
            /\ df' = EmptyDf
            /\ UNCHANGED <<onset, offset, reconciled, err>>
       ELSE LET r == corresp_onset_offset(onset, offset, 0, 2 * slen)
            IN  /\ onset' = r[1]
                /\ offset' = r[2]
                /\ reconciled' = TRUE
                /\ IF Len(r[1]) = Len(r[2])
                   THEN /\ df' = [kind |-> "table",
                                  rows |-> Rows(r[1], r[2], flims, fs)]
                        /\ err' = "none"
                   ELSE /\ df' = NoDf
                        /\ err' = "ShapeError"
                /\ UNCHANGED warned
    /\ pc' = "done"
    /\ UNCHANGED <<inputs, wl, s_filt_len, padlen, auxlen, t, s_cwt,
                   segments_bin>>

Next ==
    \/ SincCall
    \/ EnergyCall
    \/ FindFilter
    \/ FindEnergy
    \/ FindCwt
    \/ FindEdges
    \/ FindFormat

Spec == Init /\ [][Next]_vars

\* ---- properties ----

\* the call is find_rois_cwt and it has returned a value
Returned == fn = "find_rois_cwt" /\ pc = "done" /\ err = "none"

\* the call is find_rois_cwt and it has gone through thresholding to its end
Finished == fn = "find_rois_cwt" /\ pc = "done" /\ Len(segments_bin) > 0

\* 1-based positions i where the mask goes false -> true between i and i+1
RisingAt(b) == {i \in 1..(Len(b) - 1) : ~b[i] /\ b[i + 1]}

\* 1-based positions i where the mask goes true -> false between i and i+1
FallingAt(b) == {i \in 1..(Len(b) - 1) : b[i] /\ ~b[i + 1]}

\* start of the 0-based window k, k*wl/fs, in half samples
TimeOfStart(k, w) == 2 * k * w

SeqRange(q) == {q[j] : j \in 1..Len(q)}

\* C1: in every non-empty table returned by find_rois_cwt the reconciled
\* sequences satisfy onset[i] < offset[i] for every i and
\* offset[i] <= onset[i+1] for every consecutive pair.
C1_OrderedIntervals ==
    (Returned /\ df.kind = "table") =>
        /\ \A i \in 1..Len(onset) : onset[i] < offset[i]
        /\ \A i \in 1..(Len(onset) - 1) : offset[i] <= onset[i + 1]

\* C2 as stated: whenever the mask starts true, find_rois_cwt returns a
\* table whose reconciled onset sequence starts with 0 (tmin).
C2_Original ==
    (Returned /\ segments_bin[1]) => (df.kind = "table" /\ onset[1] = 0)

\* C2 amended: whenever the mask starts true and has at least one
\* false->true and one true->false transition, find_rois_cwt returns a
\* table whose reconciled onset sequence starts with 0 (tmin).
C2_FirstOnsetIsTmin ==
    (Finished /\ segments_bin[1]
        /\ RisingAt(segments_bin) # {} /\ FallingAt(segments_bin) # {}) =>
        (err = "none" /\ df.kind = "table" /\ reconciled /\ onset[1] = 0)

C2_Witness ==
    /\ Returned /\ segments_bin[1] /\ df.kind = "table"
    /\ Len(onset) >= 2 /\ onset[1] = 0 /\ onset[2] > 0

\* C3 as stated: whenever the mask ends true, find_rois_cwt returns a table
\* whose reconciled offset sequence ends with len(s)/fs (tmax).
C3_Original ==
    (Returned /\ segments_bin[Len(segments_bin)]) =>
        (df.kind = "table" /\ offset[Len(offset)] = 2 * slen)

\* C3 amended: whenever the mask ends true and has at least one
\* false->true and one true->false transition, find_rois_cwt returns a
\* table whose reconciled offset sequence ends with len(s)/fs (tmax).
C3_LastOffsetIsTmax ==
    (Finished /\ segments_bin[Len(segments_bin)]
        /\ RisingAt(segments_bin) # {} /\ FallingAt(segments_bin) # {}) =>
        (err = "none" /\ df.kind = "table" /\ reconciled
            /\ offset[Len(offset)] = 2 * slen)

C3_Witness ==
    /\ Returned /\ segments_bin[Len(segments_bin)] /\ df.kind = "table"
    /\ ~segments_bin[1]
    /\ Len(offset) >= 2 /\ offset[Len(offset)] = 2 * slen

\* C4 as stated: on the smoothed series of the call, a threshold th2 >= th
\* gives at most as many table rows as th.
C4_Original ==
    Returned =>
        \A th2 \in Ths :
            th2 >= th => NumRows(s_cwt, th2, t, slen) <= Len(df.rows)

\* C4 amended: on the smoothed series of the call, a threshold th2 >= th
\* gives a mask contained in the mask of th, and at most as many table rows
\* as the mask of th has active samples (the number of rows itself can grow).
C4_MaskShrinks ==
    Returned =>
        \A th2 \in Ths :
            th2 >= th =>
                /\ \A i \in 1..Len(s_cwt) :
                      s_cwt[i] > th2 => segments_bin[i]
                /\ NumRows(s_cwt, th2, t, slen) <=
                      Cardinality({i \in 1..Len(s_cwt) : segments_bin[i]})

C4_Witness ==
    /\ Returned /\ th < MaxTh
    /\ \E i \in 1..Len(s_cwt) : segments_bin[i] /\ ~(s_cwt[i] > MaxTh)
    /\ NumRows(s_cwt, MaxTh, t, slen) > Len(df.rows)

\* C5: when len(s) is an exact multiple of wl, energy_windowed appends no
\* sample and returns len(s)/wl energy values.
C5_NoPadOnMultiple ==
    (padlen >= 0 /\ slen % wl = 0) =>
        (padlen = 0 /\ Len(t) = slen \div wl)

\* C6: after corresp_onset_offset the two sequences have equal length, and
\* the table is built from them.
C6_EqualLength ==
    reconciled =>
        (Len(onset) = Len(offset) /\ err = "none" /\ df.kind = "table"
            /\ Len(df.rows) = Len(onset))

C6_Witness ==
    /\ reconciled /\ Len(onset) >= 2
    /\ Cardinality(RisingAt(segments_bin)) # Cardinality(FallingAt(segments_bin))

\* C7: when no sample of the smoothed series exceeds the threshold,
\* find_rois_cwt returns the empty table, raises nothing and does not call
\* the boundary reconciliation.
C7_EmptyTable ==
    (fn = "find_rois_cwt" /\ pc = "done" /\ Len(s_cwt) > 0
        /\ \A i \in 1..Len(s_cwt) : ~(s_cwt[i] > th)) =>
        (df = EmptyDf /\ err = "none" /\ ~reconciled /\ warned)

C7_Witness ==
    /\ fn = "find_rois_cwt" /\ pc = "done" /\ Len(s_cwt) >= 3
    /\ \A i \in 1..Len(s_cwt) : ~(s_cwt[i] > th)
    /\ \E i \in 1..Len(s_cwt) : s_cwt[i] = th
    /\ \E i \in 1..Len(s_cwt) : s_cwt[i] < th
    /\ df = EmptyDf

\* C8: the padded signal inside energy_windowed has a length that is an
\* exact multiple of wl, and there is one energy value per window of wl.
C8_PaddedMultiple ==
    auxlen >= 0 =>
        (auxlen % wl = 0 /\ err # "ReshapeError" /\ Len(t) * wl = auxlen)

C8_Witness ==
    auxlen >= 0 /\ wl > 1 /\ slen % wl # 0 /\ slen > wl /\ Len(t) >= 2

\* C9: sinc fails with an InvalidBandError, and produces no filtered
\* signal, whenever cutoff[1] <= cutoff[0] or the transition width is <= 0.
C9_InvalidBandRejected ==
    (fn \in {"sinc", "find_rois_cwt"} /\ pc # "start"
        /\ (flims[2] <= flims[1] \/ Width(flims, tbw) <= 0)) =>
        (err = "InvalidBandError" /\ s_filt_len = -1)

\* C10: the edges read off the mask are exactly the window starts after
\* each transition: a transition between the 0-based windows i and i+1 is
\* reported at (i+1)*wl/fs, rising ones as onsets, falling ones as offsets.
C10_EdgeAtWindowStart ==
    (fn = "find_rois_cwt" /\ pc = "edges") =>
        /\ SeqRange(onset) =
              {TimeOfStart(i, wl) : i \in RisingAt(segments_bin)}
        /\ SeqRange(offset) =
              {TimeOfStart(i, wl) : i \in FallingAt(segments_bin)}
        /\ Len(onset) = Cardinality(RisingAt(segments_bin))
        /\ Len(offset) = Cardinality(FallingAt(segments_bin))

C10_Witness ==
    /\ fn = "find_rois_cwt" /\ pc = "edges" /\ wl >= 2
    /\ Len(onset) >= 1 /\ Len(offset) >= 1

====
